---------------------------- MODULE Spec2Model ----------------------------
(***************************************************************************)
(* A model of the deterministic tools of the myHealth agent:               *)
(*   src/src/tools/fitness-tools.ts  (get_progression, log_set,            *)
(*                                    interpret_effort, get_form_cues)     *)
(*   src/src/types/index.ts          (generate_plan, get_split_            *)
(*                                    recommendations, calculate_          *)
(*                                    periodization, optimize_hybrid_      *)
(*                                    schedule)                            *)
(*                                                                         *)
(* The MCP servers are stateless: every tool call computes its result from *)
(* its arguments alone.  The state of the model is the last call the agent *)
(* runtime made: the tool, the (schema-validated) arguments and, once the  *)
(* handler has run, the JSON result.  A behaviour is one tool call: Init   *)
(* draws the call, the handler's action computes the result.               *)
(*                                                                         *)
(* Number representation.  The code computes on IEEE doubles; the model    *)
(* computes on exact fixed-point integers:                                 *)
(*   - a weight is an integer number of grams (1 kg = 1000), so 2.5 kg is  *)
(*     2500, 1.25 kg is 1250 and one decimal place is a multiple of 100;   *)
(*   - an RPE is an integer number of tenths (RPE 7 = 70, RPE 7.5 = 75),   *)
(*     because the schema z.number().min(1).max(10) accepts fractions;     *)
(*   - rep counts, week numbers and day counts are integers.               *)
(* On the bounded input sets below the exact results agree with the        *)
(* doubles the code produces (up to the last binary digit of products such *)
(* as 3.25 * 0.9).  calculateEstimated1RM rounds a product of doubles, so   *)
(* there the model carries out the double arithmetic itself.               *)
(*                                                                         *)
(* The command-line harness (src/src/index.ts) is modelled by a second     *)
(* specification, CliSpec, over the variables argv .. printed: main, the   *)
(* readline question loop of interactiveMode and the consumption of the    *)
(* message stream of one query by runFitnessCoach.  The agent SDK is the   *)
(* environment: a query yields a finite sequence of messages and then      *)
(* either ends or throws.                                                  *)
(***************************************************************************)
EXTENDS Integers, Sequences, FiniteSets, TLC

\* pc is "called" while the handler has not run yet, then "returned"
VARIABLES tool, args, result, pc

\* The harness: argv is process.argv.slice(2); cliPc the position of the
\* process; rl the readline interface; prompts the number of "You: "
\* prompts issued; queries the number of runFitnessCoach calls started and
\* inFlight the number of them that have not settled; userPrompt and
\* response the argument and the message stream of the call in flight;
\* printed the last thing written to the console.
VARIABLES argv, cliPc, rl, prompts, queries, inFlight, userPrompt, response, printed

toolVars == <<tool, args, result, pc>>
cliVars == <<argv, cliPc, rl, prompts, queries, inFlight, userPrompt, response, printed>>
vars == <<tool, args, result, pc,
          argv, cliPc, rl, prompts, queries, inFlight, userPrompt, response, printed>>

---------------------------------------------------------------------------
(* Bounds of the input sets *)

\* get_progression: lastWeight ranges over 0.25 kg, 0.50 kg, ...
MaxWeightSteps == 12
\* log_set: weight ranges over 0.05 kg, 0.10 kg, ...
MaxLogWeightSteps == 200
\* lastReps / reps range over 1..MaxReps
MaxReps == 6
\* interpret_effort: a description has at most MaxWords words
MaxWords == 4
\* generatePlan: Date.now() reads one of 1..MaxClock
MaxClock == 2
\* harness: a line or an argument list has at most MaxInputLen fragments
MaxInputLen == 2
\* harness: a query yields at most MaxMessages messages
MaxMessages == 2
\* harness: the user answers at most MaxPrompts prompts
MaxPrompts == 3

ProgressionWeights == {250 * q : q \in 1..MaxWeightSteps}
LogWeights == {50 * q : q \in 1..MaxLogWeightSteps}
RepCounts == 1..MaxReps
\* z.number().min(1).max(10): 1, 1.5, 2, ..., 10 (in tenths)
RPEValues == {r \in 10..100 : r % 5 = 0}
EquipmentKinds ==
  {"barbell", "dumbbell", "cable", "machine", "bodyweight", "kettlebell", "ez_bar"}

None == "undefined"

---------------------------------------------------------------------------
(* fitness-tools.ts *)

\* Math.min, Math.max
Min(a, b) == IF a <= b THEN a ELSE b
Max(a, b) == IF a >= b THEN a ELSE b

\* Math.round(num / den) for den > 0: the nearest integer, ties upwards
MathRound(num, den) == (2 * num + den) \div (2 * den)

\* Math.round(x * 10) / 10 of a weight x = num/den grams: one decimal of kg
RoundToOneDecimal(num, den) == MathRound(num, den * 100) * 100

\* IEEE-754 double arithmetic, for the expression of calculateEstimated1RM.
\* A natural number of any size is a sequence of limbs, least significant
\* first, each in 0..Base-1, without leading zero limbs
LimbBits == 14
Base == 16384

RECURSIVE bnNorm(_)
bnNorm(x) ==
  IF x # <<>> /\ x[Len(x)] = 0 THEN bnNorm(SubSeq(x, 1, Len(x) - 1)) ELSE x

RECURSIVE bnFromInt(_)
bnFromInt(n) == IF n = 0 THEN <<>> ELSE <<n % Base>> \o bnFromInt(n \div Base)

\* x * k + carry, for k < Base
RECURSIVE bnMulSmall(_, _, _)
bnMulSmall(x, k, carry) ==
  IF x = <<>> THEN bnFromInt(carry)
  ELSE LET t == Head(x) * k + carry
       IN <<t % Base>> \o bnMulSmall(Tail(x), k, t \div Base)

RECURSIVE bnAdd(_, _, _)
bnAdd(x, y, carry) ==
  IF x = <<>> /\ y = <<>> THEN bnFromInt(carry)
  ELSE LET a == IF x = <<>> THEN 0 ELSE Head(x)
           b == IF y = <<>> THEN 0 ELSE Head(y)
           t == a + b + carry
       IN <<t % Base>> \o bnAdd(IF x = <<>> THEN x ELSE Tail(x),
                                IF y = <<>> THEN y ELSE Tail(y), t \div Base)

RECURSIVE bnMul(_, _)
bnMul(x, y) ==
  IF y = <<>> \/ x = <<>> THEN <<>>
  ELSE bnNorm(bnAdd(bnMulSmall(x, Head(y), 0), <<0>> \o bnMul(x, Tail(y)), 0))

\* floor(x / q) for 0 < q <= Base, most significant limb first
RECURSIVE bnDivSmallFrom(_, _, _, _)
bnDivSmallFrom(x, i, q, rem) ==
  IF i = 0 THEN [quot |-> <<>>, rem |-> rem]
  ELSE LET t == rem * Base + x[i]
           rest == bnDivSmallFrom(x, i - 1, q, t % q)
       IN [quot |-> Append(rest.quot, t \div q), rem |-> rest.rem]

bnDivSmall(x, q) ==
  LET d == bnDivSmallFrom(x, Len(x), q, 0)
  IN [quot |-> bnNorm(d.quot), rem |-> d.rem]

RECURSIVE pow2(_)
pow2(k) == IF k = 0 THEN 1 ELSE 2 * pow2(k - 1)

RECURSIVE bitsOf(_)
bitsOf(n) == IF n = 0 THEN 0 ELSE 1 + bitsOf(n \div 2)

bnBitLength(x) ==
  IF x = <<>> THEN 0 ELSE LimbBits * (Len(x) - 1) + bitsOf(x[Len(x)])

bnShiftLeft(x, k) ==
  IF x = <<>> THEN x
  ELSE [i \in 1..(k \div LimbBits) |-> 0] \o bnMulSmall(x, pow2(k % LimbBits), 0)

bnShiftRight(x, k) ==
  LET drop == k \div LimbBits
  IN IF drop >= Len(x) THEN <<>>
     ELSE bnDivSmall(SubSeq(x, drop + 1, Len(x)), pow2(k % LimbBits)).quot

\* the double nearest to x * 2^e, ties to even: [m, e] stands for m * 2^e
\* with m < 2^53
fpRound(x, e) ==
  LET len == bnBitLength(x)
      k == len - 53
      y == bnShiftRight(x, k - 1)
      sticky == bnShiftLeft(y, k - 1) # x
      q == bnShiftRight(y, 1)
      roundBit == y # <<>> /\ y[1] % 2 = 1
      odd == q # <<>> /\ q[1] % 2 = 1
  IN IF len <= 53 THEN [m |-> x, e |-> e]
     ELSE [m |-> IF roundBit /\ (sticky \/ odd) THEN bnNorm(bnAdd(q, <<1>>, 0)) ELSE q,
           e |-> e + k]

\* the double nearest to p / q, for integers p >= 0 and 0 < q <= Base
fpDiv(p, q) ==
  LET d == bnDivSmall(bnShiftLeft(bnFromInt(p), 70), q)
      x == bnMulSmall(d.quot, 2, IF d.rem # 0 THEN 1 ELSE 0)
  IN fpRound(bnNorm(x), -71)

fpAdd(a, b) ==
  LET e == IF a.e <= b.e THEN a.e ELSE b.e
  IN fpRound(bnNorm(bnAdd(bnShiftLeft(a.m, a.e - e), bnShiftLeft(b.m, b.e - e), 0)), e)

fpMul(a, b) == fpRound(bnMul(a.m, b.m), a.e + b.e)

fpInt(n) == [m |-> bnFromInt(n), e |-> 0]

RECURSIVE bnToInt(_)
bnToInt(x) == IF x = <<>> THEN 0 ELSE Head(x) + Base * bnToInt(Tail(x))

\* Math.round of a double >= 0: floor(a + 1/2)
fpMathRound(a) ==
  IF a.e >= 0 THEN bnToInt(bnShiftLeft(a.m, a.e))
  ELSE bnToInt(bnShiftRight(bnAdd(a.m, bnShiftLeft(<<1>>, -a.e - 1), 0), -a.e))

\* weight * (1 + reps / 30) * 10 evaluated left to right in doubles, for a
\* weight in grams (the double of the weight in kg is the one nearest to
\* weight / 1000)
timesTen(weight, reps) ==
  fpMul(fpMul(fpDiv(weight, 1000), fpAdd(fpInt(1), fpDiv(reps, 30))), fpInt(10))

calculateEstimated1RMWholeKg(weight, reps) ==
  IF reps = 1 THEN weight
  ELSE MathRound(weight * (30 + reps), 30 * 1000) * 1000

\* Math.round(weight * (1 + reps / 30) * 10) / 10, in grams; reps === 1
\* returns the weight untouched.  The product is computed in doubles: where
\* the exact value ends in 5 hundredths the double can lie below it and
\* Math.round then rounds down (9.75 kg x 4: 110.49999999999999, 11 kg)
calculateEstimated1RM(weight, reps) ==
  IF reps = 1 THEN weight
  ELSE fpMathRound(timesTen(weight, reps)) * 100

incrementAlwaysBarbell(equipment) == 2500

\* const increment = equipment === 'barbell' ? 2.5 : 1.25
increment(equipment) == IF equipment = "barbell" THEN 2500 ELSE 1250

\* lastWeight * 0.9 (exact: every input weight is a multiple of 10 grams)
TimesNineTenths(w) == (w * 9) \div 10

getProgressionLogic(lastWeight, lastReps, lastRPE, equipment) ==
  IF lastRPE <= 70 THEN
    [weight |-> lastWeight + increment(equipment),
     reps |-> [min |-> lastReps - 1, max |-> lastReps + 1],
     reasoning |-> [text |-> "indicates room for progression. Increasing weight",
                    rpe |-> lastRPE, by |-> increment(equipment)],
     trend |-> "progressing"]
  ELSE IF lastRPE = 80 THEN
    [weight |-> lastWeight,
     reps |-> [min |-> lastReps, max |-> lastReps + 2],
     reasoning |-> [text |-> "RPE 8 is ideal. Try to add 1-2 reps before increasing weight."],
     trend |-> "progressing"]
  ELSE IF lastRPE = 90 THEN
    [weight |-> lastWeight,
     reps |-> [min |-> lastReps - 1, max |-> lastReps],
     reasoning |-> [text |-> "RPE 9 is challenging. Maintain current weight and aim for consistency."],
     trend |-> "plateau"]
  ELSE
    [weight |-> TimesNineTenths(lastWeight),
     reps |-> [min |-> lastReps, max |-> lastReps + 2],
     reasoning |-> [text |-> "indicates fatigue. Reducing weight by 10% for recovery.",
                    rpe |-> lastRPE],
     trend |-> "deload_needed"]

\* the handler of get_progression: the ProgressionRecommendation it returns
ProgressionRecommendation(a) ==
  LET progression ==
        getProgressionLogic(a.lastWeight, a.lastReps, a.lastRPE, a.equipment)
  IN [exerciseId |-> a.exerciseId,
      exerciseName |-> a.exerciseName,
      recommendedWeight |-> progression.weight,
      recommendedReps |-> progression.reps,
      previousWeight |-> a.lastWeight,
      previousReps |-> a.lastReps,
      reasoning |-> progression.reasoning,
      trend |-> progression.trend,
      confidence |-> IF a.lastRPE # 0 THEN "high" ELSE "medium"]

GetProgressionArgs ==
  {[exerciseId |-> "ex-1", exerciseName |-> "Bench Press",
    lastWeight |-> w, lastReps |-> n, lastRPE |-> r, equipment |-> e] :
     w \in ProgressionWeights, n \in RepCounts, r \in RPEValues, e \in EquipmentKinds}

GetProgression ==
  /\ tool = "get_progression"
  /\ pc = "called"
  /\ pc' = "returned"
  /\ result' = ProgressionRecommendation(args)
  /\ UNCHANGED <<tool, args, cliVars>>

\* an optional argument is the empty sequence (absent) or <<value>>
Absent == <<>>
Present(o) == o # <<>>
ValueOf(o) == o[1]

\* the handler of log_set
LogSetResponse(a) ==
  [success |-> TRUE,
   logged |-> a,
   stats |-> [estimated1RM |-> calculateEstimated1RM(a.weight, a.reps),
              volume |-> a.weight * a.reps,
              intensity |-> IF Present(a.rpe) THEN [text |-> "RPE", rpe |-> ValueOf(a.rpe)]
                            ELSE [text |-> "Not recorded"]],
   feedback |-> IF Present(a.rpe) /\ ValueOf(a.rpe) >= 90
                  THEN "Great effort! Consider slightly lower weight next set for optimal training stimulus."
                ELSE IF Present(a.rpe) /\ ValueOf(a.rpe) <= 60
                  THEN "Feeling strong! You could increase weight on the next set."
                ELSE "Good set! Keep it up."]

\* the optional rpe of log_set: absent, or one of a few values of 1..10
LogRPEValues == {Absent, <<60>>, <<75>>, <<90>>}

LogSetArgs ==
  {[exerciseId |-> "ex-1", exerciseName |-> "Bench Press",
    weight |-> w, reps |-> n, rpe |-> r, notes |-> Absent] :
     w \in LogWeights, n \in RepCounts, r \in LogRPEValues}

LogSet ==
  /\ tool = "log_set"
  /\ pc = "called"
  /\ pc' = "returned"
  /\ result' = LogSetResponse(args)
  /\ UNCHANGED <<tool, args, cliVars>>

(* interpret_effort.  A description is a sequence of text fragments joined  *)
(* by single spaces: <<"could do", "3", "more">> is "could do 3 more".      *)

Fragments ==
  {"Easy", "felt", "could do", "more", "3", "12", "good", "hard", "grind", "failure"}

Descriptions == UNION {[1..n -> Fragments] : n \in 0..MaxWords}

UpperCaseLetters ==
  <<"A", "B", "C", "D", "E", "F", "G", "H", "I", "J", "K", "L", "M",
    "N", "O", "P", "Q", "R", "S", "T", "U", "V", "W", "X", "Y", "Z">>
LowerCaseLetters ==
  <<"a", "b", "c", "d", "e", "f", "g", "h", "i", "j", "k", "l", "m",
    "n", "o", "p", "q", "r", "s", "t", "u", "v", "w", "x", "y", "z">>

\* String.prototype.toLowerCase on one fragment or one character
LowerFragment(f) ==
  IF f = "Easy" THEN "easy"
  ELSE IF f = "Exit" THEN "exit"
  ELSE IF \E i \in 1..26 : UpperCaseLetters[i] = f
    THEN LowerCaseLetters[CHOOSE i \in 1..26 : UpperCaseLetters[i] = f]
  ELSE f

toLowerCase(description) ==
  [i \in 1..Len(description) |-> LowerFragment(description[i])]

\* the keywords of the handler that occur inside a (lower-case) fragment
KeywordsIn(f) ==
  CASE f = "easy" -> {"easy"}
    [] f = "could do" -> {"could do"}
    [] f = "more" -> {"more"}
    [] f = "good" -> {"good"}
    [] f = "hard" -> {"hard"}
    [] f = "grind" -> {"grind"}
    [] f = "failure" -> {"fail"}
    [] OTHER -> {}

\* desc.includes(keyword)
includes(desc, keyword) == \E i \in 1..Len(desc) : keyword \in KeywordsIn(desc[i])

\* a fragment matching \d+, and parseInt of it
IsDigits(f) == f \in {"3", "12"}
parseInt(f) == IF f = "12" THEN 12 ELSE 3

\* desc.match(/(\d+)\s*more/): the positions of a number directly followed
\* by "more"; the match is the leftmost one
MoreMatches(desc) ==
  {i \in 1..(Len(desc) - 1) : IsDigits(desc[i]) /\ desc[i + 1] = "more"}

FirstOf(S) == CHOOSE i \in S : \A j \in S : i <= j

repsInReserve(desc) ==
  IF MoreMatches(desc) # {} THEN parseInt(desc[FirstOf(MoreMatches(desc))]) ELSE 3

InterpretEffortHardFirst(description) ==
  LET desc == toLowerCase(description)
  IN IF includes(desc, "easy") \/ includes(desc, "warm-up") \/ includes(desc, "leicht")
       THEN [rpe |-> 5, reasoning |-> [text |-> "Easy/warm-up effort indicates low intensity"]]
     ELSE IF includes(desc, "could do") /\ includes(desc, "more")
       THEN [rpe |-> 10 - repsInReserve(desc),
             reasoning |-> [text |-> "reps in reserve translates to RPE",
                            reps |-> repsInReserve(desc),
                            rpe |-> 10 - repsInReserve(desc)]]
     ELSE IF includes(desc, "hard") \/ includes(desc, "tough") \/ includes(desc, "schwer")
       THEN [rpe |-> 8, reasoning |-> [text |-> "Hard/tough effort indicates RPE 8-9"]]
     ELSE IF includes(desc, "good") \/ includes(desc, "solid") \/ includes(desc, "gut")
       THEN [rpe |-> 7, reasoning |-> [text |-> "Good/solid effort typically indicates RPE 7-8"]]
     ELSE IF includes(desc, "grind") \/ includes(desc, "struggle") \/ includes(desc, "max")
       THEN [rpe |-> 9, reasoning |-> [text |-> "Grinding/struggling indicates near-maximal effort"]]
     ELSE IF includes(desc, "fail") \/ includes(desc, "couldn't")
       THEN [rpe |-> 10, reasoning |-> [text |-> "Failure or inability to complete indicates RPE 10"]]
     ELSE [rpe |-> 7, reasoning |-> [text |-> "Defaulting to moderate effort (RPE 7) based on description"]]

\* the if/else chain of the handler: rpe and reasoning
InterpretEffort(description) ==
  LET desc == toLowerCase(description)
  IN IF includes(desc, "easy") \/ includes(desc, "warm-up") \/ includes(desc, "leicht")
       THEN [rpe |-> 5, reasoning |-> [text |-> "Easy/warm-up effort indicates low intensity"]]
     ELSE IF includes(desc, "could do") /\ includes(desc, "more")
       THEN [rpe |-> 10 - repsInReserve(desc),
             reasoning |-> [text |-> "reps in reserve translates to RPE",
                            reps |-> repsInReserve(desc),
                            rpe |-> 10 - repsInReserve(desc)]]
     ELSE IF includes(desc, "good") \/ includes(desc, "solid") \/ includes(desc, "gut")
       THEN [rpe |-> 7, reasoning |-> [text |-> "Good/solid effort typically indicates RPE 7-8"]]
     ELSE IF includes(desc, "hard") \/ includes(desc, "tough") \/ includes(desc, "schwer")
       THEN [rpe |-> 8, reasoning |-> [text |-> "Hard/tough effort indicates RPE 8-9"]]
     ELSE IF includes(desc, "grind") \/ includes(desc, "struggle") \/ includes(desc, "max")
       THEN [rpe |-> 9, reasoning |-> [text |-> "Grinding/struggling indicates near-maximal effort"]]
     ELSE IF includes(desc, "fail") \/ includes(desc, "couldn't")
       THEN [rpe |-> 10, reasoning |-> [text |-> "Failure or inability to complete indicates RPE 10"]]
     ELSE [rpe |-> 7, reasoning |-> [text |-> "Defaulting to moderate effort (RPE 7) based on description"]]

InterpretEffortArgs == {[description |-> d] : d \in Descriptions}

InterpretEffortCall ==
  /\ tool = "interpret_effort"
  /\ pc = "called"
  /\ pc' = "returned"
  /\ result' = [rpe |-> InterpretEffort(args.description).rpe,
                reasoning |-> InterpretEffort(args.description).reasoning,
                originalDescription |-> args.description]
  /\ UNCHANGED <<tool, args, cliVars>>

---------------------------------------------------------------------------
(* get_form_cues.  An exercise name is the sequence of its characters.      *)

\* the database in the order of Object.entries; chars spells the name
formCuesDatabase ==
  <<
   [name |-> "bench press",
    chars |-> <<"b", "e", "n", "c", "h", " ", "p", "r", "e", "s", "s">>,
    cues |-> <<"Retract and depress shoulder blades",
               "Plant feet firmly on the floor",
               "Lower bar to mid-chest with control",
               "Drive through feet on the press",
               "Keep wrists straight over elbows">>],
   [name |-> "squat",
    chars |-> <<"s", "q", "u", "a", "t">>,
    cues |-> <<"Brace core before descending",
               "Push knees out over toes",
               "Keep chest up throughout",
               "Descend until hip crease below knee",
               "Drive through full foot on ascent">>],
   [name |-> "deadlift",
    chars |-> <<"d", "e", "a", "d", "l", "i", "f", "t">>,
    cues |-> <<"Bar over mid-foot at start",
               "Shoulders slightly in front of bar",
               "Brace core and engage lats",
               "Push floor away, don't pull bar",
               "Lock out hips and knees together">>],
   [name |-> "overhead press",
    chars |-> <<"o", "v", "e", "r", "h", "e", "a", "d", " ", "p", "r", "e",
                "s", "s">>,
    cues |-> <<"Grip slightly outside shoulders",
               "Elbows slightly in front of bar",
               "Squeeze glutes for stability",
               "Press bar in slight arc around face",
               "Lock out fully overhead">>],
   [name |-> "row",
    chars |-> <<"r", "o", "w">>,
    cues |-> <<"Hinge at hips, keep back flat",
               "Pull to lower chest/upper abs",
               "Lead with elbows, not hands",
               "Squeeze shoulder blades at top",
               "Control the negative">>]
  >>

\* the cues of an exercise no entry matches
generalCues ==
  <<"Focus on controlled movement",
    "Maintain proper breathing",
    "Use full range of motion",
    "Keep core engaged throughout">>

\* String.prototype.includes on character sequences: sub occurs in s as a
\* contiguous run (the empty string occurs in every string)
includesString(s, sub) ==
  \E i \in 0..(Len(s) - Len(sub)) : SubSeq(s, i + 1, i + Len(sub)) = sub

\* exerciseLower.includes(name) || name.includes(exerciseLower)
matchesEntry(exerciseLower, entry) ==
  includesString(exerciseLower, entry.chars) \/ includesString(entry.chars, exerciseLower)

\* the handler of get_form_cues: the first matching entry wins
GetFormCues(a) ==
  LET exerciseLower == toLowerCase(a.exerciseName)
      matching == {i \in 1..Len(formCuesDatabase) :
                     matchesEntry(exerciseLower, formCuesDatabase[i])}
      first == CHOOSE i \in matching : \A j \in matching : i <= j
      cues == IF matching # {} THEN formCuesDatabase[first].cues ELSE <<>>
  IN IF Len(cues) = 0
       THEN [exercise |-> a.exerciseName, matched |-> "general", formCues |-> generalCues]
       ELSE [exercise |-> a.exerciseName,
             matched |-> formCuesDatabase[first].name,
             formCues |-> cues]

\* z.string(): any string, here
\*   "Squat"
\*   "Bench Press"
\*   "BENCH"
\*   "press"
\*   ""
\*   "Deadlift"
\*   "Overhead Press"
\*   "Barbell Row"
\*   "Narrow Grip Bench"
\*   "Plank"
\*   "squats"
ExerciseNames ==
  {<<"S", "q", "u", "a", "t">>,
   <<"B", "e", "n", "c", "h", " ", "P", "r", "e", "s", "s">>,
   <<"B", "E", "N", "C", "H">>,
   <<"p", "r", "e", "s", "s">>,
   <<>>,
   <<"D", "e", "a", "d", "l", "i", "f", "t">>,
   <<"O", "v", "e", "r", "h", "e", "a", "d", " ", "P", "r", "e", "s", "s">>,
   <<"B", "a", "r", "b", "e", "l", "l", " ", "R", "o", "w">>,
   <<"N", "a", "r", "r", "o", "w", " ", "G", "r", "i", "p", " ", "B", "e",
      "n", "c", "h">>,
   <<"P", "l", "a", "n", "k">>,
   <<"s", "q", "u", "a", "t", "s">>}

GetFormCuesArgs == {[exerciseName |-> n] : n \in ExerciseNames}

GetFormCuesCall ==
  /\ tool = "get_form_cues"
  /\ pc = "called"
  /\ pc' = "returned"
  /\ result' = GetFormCues(args)
  /\ UNCHANGED <<tool, args, cliVars>>

---------------------------------------------------------------------------
(* plan tools (src/src/types/index.ts): generatePlan and generate_plan *)

SplitNames == {"ppl", "ppl_3", "upper_lower", "torso_limbs", "full_body", "bro_split"}

SPLIT_TEMPLATES ==
  [n \in SplitNames |->
     CASE n = "ppl" ->
            [days |-> 6, structure |-> <<"push", "pull", "legs", "push", "pull", "legs">>]
       [] n = "ppl_3" -> [days |-> 3, structure |-> <<"push", "pull", "legs">>]
       [] n = "upper_lower" ->
            [days |-> 4, structure |-> <<"upper", "lower", "upper", "lower">>]
       [] n = "torso_limbs" ->
            [days |-> 4, structure |-> <<"torso", "limbs", "torso", "limbs">>]
       [] n = "full_body" ->
            [days |-> 3, structure |-> <<"full_body", "full_body", "full_body">>]
       [] n = "bro_split" ->
            [days |-> 5, structure |-> <<"push", "pull", "legs", "upper", "lower">>]]

\* an exercise name is the sequence of its words
EXERCISE_RECOMMENDATIONS(workoutType) ==
  CASE workoutType = "push" ->
         <<<<"Bench", "Press">>, <<"Overhead", "Press">>, <<"Incline", "Dumbbell", "Press">>,
           <<"Dips">>, <<"Lateral", "Raises">>, <<"Tricep", "Pushdowns">>>>
    [] workoutType = "pull" ->
         <<<<"Deadlift">>, <<"Barbell", "Row">>, <<"Pull-Ups">>, <<"Face", "Pulls">>,
           <<"Barbell", "Curls">>, <<"Hammer", "Curls">>>>
    [] workoutType = "legs" ->
         <<<<"Squat">>, <<"Romanian", "Deadlift">>, <<"Leg", "Press">>, <<"Leg", "Curl">>,
           <<"Calf", "Raises">>, <<"Lunges">>>>
    [] workoutType = "torso" ->
         <<<<"Bench", "Press">>, <<"Barbell", "Row">>, <<"Overhead", "Press">>,
           <<"Pull-Ups">>, <<"Dumbbell", "Flyes">>, <<"Face", "Pulls">>>>
    [] workoutType = "limbs" ->
         <<<<"Squat">>, <<"Romanian", "Deadlift">>, <<"Barbell", "Curls">>,
           <<"Tricep", "Extensions">>, <<"Lateral", "Raises">>, <<"Calf", "Raises">>>>
    [] workoutType = "upper" ->
         <<<<"Bench", "Press">>, <<"Barbell", "Row">>, <<"Overhead", "Press">>,
           <<"Pull-Ups">>, <<"Bicep", "Curls">>, <<"Tricep", "Extensions">>>>
    [] workoutType = "lower" ->
         <<<<"Squat">>, <<"Romanian", "Deadlift">>, <<"Leg", "Press">>, <<"Leg", "Curl">>,
           <<"Calf", "Raises">>, <<"Hip", "Thrusts">>>>
    [] workoutType = "full_body" ->
         <<<<"Squat">>, <<"Bench", "Press">>, <<"Barbell", "Row">>, <<"Overhead", "Press">>,
           <<"Romanian", "Deadlift">>, <<"Pull-Ups">>>>
    [] OTHER -> <<>>

\* toLowerCase on the words of the exercise names
LowerWords ==
  {<<"Bench", "bench">>, <<"Press", "press">>, <<"Overhead", "overhead">>,
   <<"Incline", "incline">>, <<"Dumbbell", "dumbbell">>, <<"Dips", "dips">>,
   <<"Lateral", "lateral">>, <<"Raises", "raises">>, <<"Tricep", "tricep">>,
   <<"Pushdowns", "pushdowns">>, <<"Deadlift", "deadlift">>, <<"Barbell", "barbell">>,
   <<"Row", "row">>, <<"Pull-Ups", "pull-ups">>, <<"Face", "face">>, <<"Pulls", "pulls">>,
   <<"Curls", "curls">>, <<"Hammer", "hammer">>, <<"Squat", "squat">>,
   <<"Romanian", "romanian">>, <<"Leg", "leg">>, <<"Curl", "curl">>, <<"Calf", "calf">>,
   <<"Lunges", "lunges">>, <<"Flyes", "flyes">>, <<"Extensions", "extensions">>,
   <<"Bicep", "bicep">>, <<"Hip", "hip">>, <<"Thrusts", "thrusts">>}

LowerWord(w) == (CHOOSE pair \in LowerWords : pair[1] = w)[2]

\* name.toLowerCase().replace(/\s+/g, '-')
RECURSIVE JoinLower(_)
JoinLower(name) ==
  IF Len(name) = 1 THEN LowerWord(name[1])
  ELSE LowerWord(name[1]) \o "-" \o JoinLower(Tail(name))

exerciseIdOf(name) == "exercise-" \o JoinLower(name)

\* workoutType.charAt(0).toUpperCase() + workoutType.slice(1).replace('_', ' ')
\* followed by " Day"
DayName(workoutType) ==
  CASE workoutType = "push" -> "Push Day"
    [] workoutType = "pull" -> "Pull Day"
    [] workoutType = "legs" -> "Legs Day"
    [] workoutType = "torso" -> "Torso Day"
    [] workoutType = "limbs" -> "Limbs Day"
    [] workoutType = "upper" -> "Upper Day"
    [] workoutType = "lower" -> "Lower Day"
    [] workoutType = "full_body" -> "Full body Day"
    [] OTHER -> "Custom Day"

\* SPLIT_TEMPLATES is an object literal: a property read that finds no own
\* property continues on Object.prototype, whose properties are functions
\* or (__proto__) an object, hence truthy and without a structure
ObjectPrototypeKeys ==
  {"constructor", "__proto__", "toString", "toLocaleString", "valueOf",
   "hasOwnProperty", "isPrototypeOf", "propertyIsEnumerable",
   "__defineGetter__", "__defineSetter__", "__lookupGetter__", "__lookupSetter__"}

\* the string a template literal makes of an inherited property
inheritedAsString(key) ==
  IF key = "__proto__" THEN "[object Object]"
  ELSE IF key = "constructor" THEN "function Object() { [native code] }"
  ELSE "function " \o key \o "() { [native code] }"

\* SPLIT_TEMPLATES[splitType] || SPLIT_TEMPLATES['ppl_3']
ResolveTemplate(splitType) ==
  IF splitType \in DOMAIN SPLIT_TEMPLATES THEN SPLIT_TEMPLATES[splitType]
  ELSE IF splitType \in ObjectPrototypeKeys THEN [inherited |-> splitType]
  ELSE SPLIT_TEMPLATES["ppl_3"]

repRangesStrengthLikeHypertrophy(goal) ==
  CASE goal = "hypertrophy" -> [min |-> 8, max |-> 12, sets |-> 4]
    [] goal = "strength" -> [min |-> 8, max |-> 12, sets |-> 4]
    [] goal = "endurance" -> [min |-> 12, max |-> 20, sets |-> 3]

repRanges(goal) ==
  CASE goal = "hypertrophy" -> [min |-> 8, max |-> 12, sets |-> 4]
    [] goal = "strength" -> [min |-> 3, max |-> 6, sets |-> 5]
    [] goal = "endurance" -> [min |-> 12, max |-> 20, sets |-> 3]

\* exercises.slice(0, 6)
Slice6(exercises) == SubSeq(exercises, 1, Min(6, Len(exercises)))

\* the body of the for loop: the PlanDay pushed for index i (0-based)
PlanDayAt(i, template, repConfig) ==
  LET workoutType == template.structure[i + 1]
      exercises == Slice6(EXERCISE_RECOMMENDATIONS(workoutType))
  IN [dayNumber |-> i + 1,
      name |-> DayName(workoutType),
      workoutType |-> workoutType,
      exercises |-> [idx \in 1..Len(exercises) |->
                       [exerciseId |-> exerciseIdOf(exercises[idx]),
                        order |-> idx,
                        targetSets |-> repConfig.sets,
                        targetRepsMin |-> repConfig.min,
                        targetRepsMax |-> repConfig.max]]]

\* for (let i = 0; i < Math.min(daysPerWeek, template.structure.length); i++)
TrainingDays(template, daysPerWeek, repConfig) ==
  [k \in 1..Min(daysPerWeek, Len(template.structure)) |->
     PlanDayAt(k - 1, template, repConfig)]

addsCardioDayWheneverAsked(includeCardio, daysPerWeek, days) == includeCardio

\* if (includeCardio && daysPerWeek > days.length)
addsCardioDay(includeCardio, daysPerWeek, days) ==
  includeCardio /\ daysPerWeek > Len(days)

EasyRunDay(days) ==
  [dayNumber |-> Len(days) + 1,
   name |-> "Easy Run",
   workoutType |-> "custom",
   exercises |-> <<[exerciseId |-> "cardio-easy-run",
                    order |-> 1,
                    targetSets |-> 1,
                    targetRepsMin |-> 20,
                    targetRepsMax |-> 40,
                    notes |-> "20-40 minutes Zone 2 running"]>>]

\* `plan-${Date.now()}`
planId(now) == "plan-" \o ToString(now)

\* what a call that throws leaves instead of a TrainingPlan
TypeError == [error |-> "TypeError: Cannot read properties of undefined (reading 'length')"]
Threw(r) == "error" \in DOMAIN r

\* generatePlan; now is the value Date.now() returns.  The loop condition
\* reads template.structure.length, which throws when the template found is
\* a property of Object.prototype
generatePlan(name, splitType, daysPerWeek, goal, includeCardio, now) ==
  LET template == ResolveTemplate(splitType)
      repConfig == repRanges(goal)
      trainingDays == TrainingDays(template, daysPerWeek, repConfig)
      days == IF addsCardioDay(includeCardio, daysPerWeek, trainingDays)
                THEN Append(trainingDays, EasyRunDay(trainingDays))
                ELSE trainingDays
  IN IF "structure" \notin DOMAIN template THEN TypeError
     ELSE [id |-> planId(now),
           name |-> name,
           daysPerWeek |-> daysPerWeek,
           splitType |-> splitType,
           days |-> days]

\* explanations[splitType] || 'Custom split configuration.': explanations is
\* an object literal too, so an inherited property is found before the
\* fallback
getSplitExplanation(splitType, goal) ==
  (CASE splitType = "ppl" -> "Push/Pull/Legs split trains each muscle group twice per week with optimal recovery between sessions."
     [] splitType = "ppl_3" -> "3-day PPL provides full coverage with one session per movement pattern per week."
     [] splitType = "upper_lower" -> "Upper/Lower split balances training frequency with recovery, ideal for intermediate lifters."
     [] splitType = "torso_limbs" -> "Torso/Limbs separates core movements from arm/leg focus days."
     [] splitType = "full_body" -> "Full body training maximizes frequency and is ideal for beginners or time-constrained lifters."
     [] splitType = "bro_split" -> "Traditional bodybuilding split with high volume per muscle group once per week."
     [] splitType \in ObjectPrototypeKeys -> inheritedAsString(splitType)
     [] OTHER -> "Custom split configuration.")
  \o " Optimized for " \o goal \o " with appropriate rep ranges and volume."

\* the handler of generate_plan
GeneratePlanResponse(a, now) ==
  LET plan == generatePlan(a.name, a.splitType, a.daysPerWeek, a.goal, a.includeCardio, now)
  IN [success |-> TRUE,
      plan |-> plan,
      summary |-> [totalDays |-> Len(plan.days),
                   exercisesPerDay |-> [k \in 1..Len(plan.days) |-> Len(plan.days[k].exercises)],
                   splitExplanation |-> getSplitExplanation(a.splitType, a.goal)]]

PlanGoals == {"hypertrophy", "strength", "endurance"}

\* the schema of generate_plan: the splitType enum, daysPerWeek 2..6
GeneratePlanArgs ==
  {[name |-> "My Plan", splitType |-> st, daysPerWeek |-> d, goal |-> g, includeCardio |-> c] :
     st \in SplitNames, d \in 2..6, g \in PlanGoals, c \in BOOLEAN}

GeneratePlanCall ==
  /\ tool = "generate_plan"
  /\ pc = "called"
  /\ pc' = "returned"
  /\ \E now \in 1..MaxClock : result' = GeneratePlanResponse(args, now)
  /\ UNCHANGED <<tool, args, cliVars>>

\* generatePlan called as a function: splitType is any string, here one of
\* the template names or a tag that names no template
UnknownSplitTags == {"arnold_split", "constructor", "__defineGetter__"}

GeneratePlanFunctionArgs ==
  {[name |-> "My Plan", splitType |-> st, daysPerWeek |-> d, goal |-> g, includeCardio |-> c] :
     st \in SplitNames \cup UnknownSplitTags, d \in 2..6, g \in PlanGoals, c \in BOOLEAN}

GeneratePlanFunctionCall ==
  /\ tool = "generatePlan"
  /\ pc = "called"
  /\ pc' = "returned"
  /\ \E now \in 1..MaxClock :
       result' = generatePlan(args.name, args.splitType, args.daysPerWeek, args.goal,
                              args.includeCardio, now)
  /\ UNCHANGED <<tool, args, cliVars>>

---------------------------------------------------------------------------
(* plan tools (src/src/types/index.ts): calculate_periodization *)

\* Math.floor(totalWeeks * p / 100) for a percentage p
FloorPercent(totalWeeks, p) == (totalWeeks * p) \div 100

\* for (let w = first; w <= last; w++): the values w takes, in order
WeeksFromTo(first, last) == [i \in 1..(last - first + 1) |-> first + i - 1]

AccumulationWeek(w) ==
  [week |-> w, phase |-> "Accumulation", intensity |-> "65-75% 1RM",
   volume |-> "High (15-20 sets/muscle)", notes |-> "Focus on volume, RPE 7-8"]

IntensificationWeek(w) ==
  [week |-> w, phase |-> "Intensification", intensity |-> "75-85% 1RM",
   volume |-> "Moderate (12-16 sets/muscle)", notes |-> "Increase weight, RPE 8-9"]

HypertrophyDeloadWeek(w) ==
  [week |-> w, phase |-> "Deload", intensity |-> "50-60% 1RM",
   volume |-> "Low (8-10 sets/muscle)", notes |-> "Recovery focus, RPE 5-6"]

HypertrophyPhases(totalWeeks, includeDeload) ==
  LET accumWeeks == FloorPercent(totalWeeks, 50)
      intensWeeks == FloorPercent(totalWeeks, 35)
      \* computed by the handler and never read
      deloadWeeks == IF includeDeload
                       THEN Max(1, totalWeeks - accumWeeks - intensWeeks) ELSE 0
      accum == WeeksFromTo(1, accumWeeks)
      intens == WeeksFromTo(accumWeeks + 1, accumWeeks + intensWeeks)
      deload == WeeksFromTo(accumWeeks + intensWeeks + 1, totalWeeks)
  IN [k \in DOMAIN accum |-> AccumulationWeek(accum[k])]
     \o [k \in DOMAIN intens |-> IntensificationWeek(intens[k])]
     \o (IF includeDeload
           THEN [k \in DOMAIN deload |-> HypertrophyDeloadWeek(deload[k])]
           ELSE <<>>)

VolumeWeek(w) ==
  [week |-> w, phase |-> "Volume", intensity |-> "70-80% 1RM",
   volume |-> "High (5x5-8)", notes |-> "Build work capacity"]

StrengthWeek(w) ==
  [week |-> w, phase |-> "Strength", intensity |-> "80-90% 1RM",
   volume |-> "Moderate (5x3-5)", notes |-> "Progressive overload focus"]

StrengthPhases(totalWeeks, includeDeload) ==
  LET volWeeks == FloorPercent(totalWeeks, 40)
      strWeeks == FloorPercent(totalWeeks, 40)
      \* computed by the handler and never read
      peakWeeks == totalWeeks - volWeeks - strWeeks
      PeakingWeek(w) ==
        LET last == includeDeload /\ w = totalWeeks
        IN [week |-> w,
            phase |-> IF last THEN "Deload" ELSE "Peaking",
            intensity |-> IF last THEN "60% 1RM" ELSE "90-95% 1RM",
            volume |-> "Low (3x1-3)",
            notes |-> IF last THEN "Active recovery" ELSE "Test new maxes"]
      vol == WeeksFromTo(1, volWeeks)
      str == WeeksFromTo(volWeeks + 1, volWeeks + strWeeks)
      peak == WeeksFromTo(volWeeks + strWeeks + 1, totalWeeks)
  IN [k \in DOMAIN vol |-> VolumeWeek(vol[k])]
     \o [k \in DOMAIN str |-> StrengthWeek(str[k])]
     \o [k \in DOMAIN peak |-> PeakingWeek(peak[k])]

PeakingPhases(totalWeeks, includeDeload) ==
  LET PeakWeek(w) ==
        LET isDeload == includeDeload /\ (w % 4 = 0)
        IN [week |-> w,
            phase |-> IF isDeload THEN "Deload" ELSE "Week " \o ToString(w),
            intensity |-> IF isDeload THEN "60% 1RM"
                          ELSE ToString(80 + Min(w * 2, 15)) \o "% 1RM",
            volume |-> IF isDeload THEN "Low" ELSE "Moderate",
            notes |-> IF isDeload THEN "Recovery" ELSE "Building to peak"]
      weeks == WeeksFromTo(1, totalWeeks)
  IN [k \in DOMAIN weeks |-> PeakWeek(weeks[k])]

\* the handler of calculate_periodization
CalculatePeriodization(a) ==
  LET phases ==
        IF a.goal = "hypertrophy" THEN HypertrophyPhases(a.totalWeeks, a.includeDeload)
        ELSE IF a.goal = "strength" THEN StrengthPhases(a.totalWeeks, a.includeDeload)
        ELSE PeakingPhases(a.totalWeeks, a.includeDeload)
      names == {phases[i].phase : i \in 1..Len(phases)}
  IN [totalWeeks |-> a.totalWeeks,
      goal |-> a.goal,
      includesDeload |-> a.includeDeload,
      phases |-> phases,
      summary |-> [phaseCounts |->
                     [n \in names |-> Cardinality({i \in 1..Len(phases) : phases[i].phase = n})]]]

\* z.number().min(4).max(16), the goal enum and the includeDeload flag
CalculatePeriodizationArgs ==
  {[totalWeeks |-> t, goal |-> g, includeDeload |-> d] :
     t \in 4..16, g \in {"hypertrophy", "strength", "peaking"}, d \in BOOLEAN}

CalculatePeriodizationCall ==
  /\ tool = "calculate_periodization"
  /\ pc = "called"
  /\ pc' = "returned"
  /\ result' = CalculatePeriodization(args)
  /\ UNCHANGED <<tool, args, cliVars>>

---------------------------------------------------------------------------
(* plan tools: get_split_recommendations                                    *)

\* the candidate list of each experience level, before filtering
candidateSplits(experienceLevel, availableDays) ==
  IF experienceLevel = "beginner" THEN
    <<[split |-> "full_body",
       reason |-> "Best for beginners - high frequency, motor learning",
       optimal |-> availableDays <= 3],
      [split |-> "upper_lower",
       reason |-> "Good progression from full body",
       optimal |-> availableDays = 4]>>
  ELSE IF experienceLevel = "intermediate" THEN
    <<[split |-> "upper_lower",
       reason |-> "Good volume distribution, recovery balance",
       optimal |-> availableDays = 4],
      [split |-> "ppl_3",
       reason |-> "Classic bodybuilding split, good volume",
       optimal |-> availableDays = 3],
      [split |-> "ppl",
       reason |-> "Maximum frequency and volume",
       optimal |-> availableDays >= 5]>>
  ELSE
    <<[split |-> "ppl",
       reason |-> "High frequency for advanced lifters",
       optimal |-> availableDays >= 5],
      [split |-> "torso_limbs",
       reason |-> "Alternative to PPL with different emphasis",
       optimal |-> availableDays = 4]>>

\* template && template.days <= args.availableDays
fitsAvailableDays(r, availableDays) ==
  /\ r.split \in DOMAIN SPLIT_TEMPLATES
  /\ SPLIT_TEMPLATES[r.split].days <= availableDays

\* recommendations.filter(r => ...)
feasibleSplits(experienceLevel, availableDays) ==
  LET Fits(r) == fitsAvailableDays(r, availableDays)
  IN SelectSeq(candidateSplits(experienceLevel, availableDays), Fits)

\* recommendations.find(r => r.optimal)?.split || recommendations[0]?.split;
\* undefined (None) when the list is empty
bestChoice(recommendations) ==
  LET optimal == {k \in 1..Len(recommendations) : recommendations[k].optimal}
      first == CHOOSE k \in optimal : \A j \in optimal : k <= j
  IN IF optimal # {} THEN recommendations[first].split
     ELSE IF Len(recommendations) > 0 THEN recommendations[1].split
     ELSE None

\* the handler of get_split_recommendations
GetSplitRecommendations(a) ==
  LET recommendations == feasibleSplits(a.experienceLevel, a.availableDays)
  IN [experienceLevel |-> a.experienceLevel,
      availableDays |-> a.availableDays,
      goal |-> a.goal,
      recommendations |-> recommendations,
      bestChoice |-> bestChoice(recommendations)]

GetSplitRecommendationsArgs ==
  {[experienceLevel |-> e, availableDays |-> d, goal |-> g] :
     e \in {"beginner", "intermediate", "advanced"},
     d \in 2..6,
     g \in {"hypertrophy", "strength", "general_fitness"}}

GetSplitRecommendationsCall ==
  /\ tool = "get_split_recommendations"
  /\ pc = "called"
  /\ pc' = "returned"
  /\ result' = GetSplitRecommendations(args)
  /\ UNCHANGED <<tool, args, cliVars>>

---------------------------------------------------------------------------
(* plan tools: optimize_hybrid_schedule.  Day indices are 0..6 as in the    *)
(* code; weekDays[idx + 1] is the name of day idx.                          *)

weekDays ==
  <<"Monday", "Tuesday", "Wednesday", "Thursday", "Friday", "Saturday", "Sunday">>

\* weekDays.indexOf(day)
indexOf(day) == (CHOOSE i \in 1..Len(weekDays) : weekDays[i] = day) - 1

\* the values of an array of day indices, as a Set
SetOf(seq) == {seq[i] : i \in 1..Len(seq)}

SortByDayKeepsOrder(schedule) == schedule

RECURSIVE SortFrom(_, _)
SortFrom(idx, schedule) ==
  IF idx > 6 THEN <<>>
  ELSE LET OnDay(e) == indexOf(e.day) = idx
       IN SelectSeq(schedule, OnDay) \o SortFrom(idx + 1, schedule)

\* schedule.sort((a, b) => weekDays.indexOf(a.day) - weekDays.indexOf(b.day)):
\* a stable sort by weekday index
SortByDay(schedule) == SortFrom(0, schedule)

\* strength-first: the weekday pattern of the strength sessions
strengthSchedule(strengthDays) ==
  IF strengthDays = 4 THEN <<0, 2, 4, 5>>
  ELSE IF strengthDays = 3 THEN <<0, 2, 4>>
  ELSE <<0, 3>>

\* strengthSchedule.forEach((dayIdx, i) => schedule.push(...))
StrengthFirstSessions(strengthDays) ==
  LET pattern == strengthSchedule(strengthDays)
  IN [k \in 1..Len(pattern) |->
        LET i == k - 1
            isLegDay == (i % 2) = (IF strengthDays > 2 THEN 0 ELSE 1)
        IN [day |-> weekDays[pattern[k] + 1],
            activity |-> IF isLegDay THEN "Lower Body" ELSE "Upper Body",
            notes |-> "Full strength session"]]

\* strengthSchedule.some((s, idx) => s === (i + 1) % 7 && idx % 2 === 0)
nextDayIsLegs(pattern, i) ==
  \E k \in 1..Len(pattern) : pattern[k] = (i + 1) % 7 /\ (k - 1) % 2 = 0

\* for (let i = 0; i < 7 && cardioAdded < cardioDays; i++) { ... }
RECURSIVE CardioFill(_, _, _, _)
CardioFill(i, cardioAdded, schedule, a) ==
  IF ~(i < 7 /\ cardioAdded < a.cardioDays) THEN schedule
  ELSE IF i \notin SetOf(strengthSchedule(a.strengthDays)) THEN
    LET isEasyCardio ==
          nextDayIsLegs(strengthSchedule(a.strengthDays), i) \/ a.prioritize = "strength"
        entry == [day |-> weekDays[i + 1],
                  activity |-> IF isEasyCardio THEN "Easy Cardio" ELSE "Quality Cardio",
                  notes |-> IF isEasyCardio
                              THEN "Zone 2 " \o a.cardioType \o ", 30-40 min"
                              ELSE "Intervals or tempo " \o a.cardioType \o ", 20-30 min"]
    IN CardioFill(i + 1, cardioAdded + 1, Append(schedule, entry), a)
  ELSE CardioFill(i + 1, cardioAdded, schedule, a)

\* cardio-first: the weekday pattern of the cardio sessions
cardioPattern(cardioDays) == IF cardioDays = 3 THEN <<1, 3, 5>> ELSE <<1, 4>>

\* cardioDays.forEach(dayIdx => schedule.push(...))
CardioFirstSessions(a) ==
  LET pattern == cardioPattern(a.cardioDays)
  IN [k \in 1..Len(pattern) |->
        [day |-> weekDays[pattern[k] + 1],
         activity |-> "Quality Cardio",
         notes |-> "Main " \o a.cardioType \o " session"]]

strengthDayFreeOffCardioOnly(i, cardioSet) == i \notin cardioSet

\* !cardioSet.has(i) && !cardioSet.has(i - 1)
strengthDayFree(i, cardioSet) == i \notin cardioSet /\ (i - 1) \notin cardioSet

\* for (let i = 0; i < 7 && strengthAdded < strengthDays; i++) { ... }
RECURSIVE StrengthFill(_, _, _, _)
StrengthFill(i, strengthAdded, schedule, a) ==
  LET cardioSet == SetOf(cardioPattern(a.cardioDays))
  IN IF ~(i < 7 /\ strengthAdded < a.strengthDays) THEN schedule
     ELSE IF strengthDayFree(i, cardioSet) THEN
       StrengthFill(i + 1, strengthAdded + 1,
                    Append(schedule,
                           [day |-> weekDays[i + 1],
                            activity |-> IF strengthAdded % 2 = 0 THEN "Upper Body"
                                         ELSE "Lower Body",
                            notes |-> "Strength session"]),
                    a)
     ELSE StrengthFill(i + 1, strengthAdded, schedule, a)

\* weekDays.forEach(day => { if (!scheduledDays.has(day)) schedule.push(Rest) })
RECURSIVE RestFill(_, _, _)
RestFill(k, scheduledDays, schedule) ==
  IF k > Len(weekDays) THEN schedule
  ELSE IF weekDays[k] \notin scheduledDays
    THEN RestFill(k + 1, scheduledDays,
                  Append(schedule,
                         [day |-> weekDays[k], activity |-> "Rest", notes |-> "Recovery day"]))
  ELSE RestFill(k + 1, scheduledDays, schedule)

\* the schedule the handler builds
HybridSchedule(a) ==
  LET sessions ==
        IF a.prioritize = "strength" \/ a.prioritize = "balanced"
          THEN CardioFill(0, 0, StrengthFirstSessions(a.strengthDays), a)
          ELSE StrengthFill(0, 0, CardioFirstSessions(a), a)
      sorted == SortByDay(sessions)
      scheduledDays == {sorted[k].day : k \in 1..Len(sorted)}
  IN SortByDay(RestFill(1, scheduledDays, sorted))

\* the handler of optimize_hybrid_schedule
OptimizeHybridSchedule(a) ==
  [configuration |-> [strengthDays |-> a.strengthDays,
                      cardioDays |-> a.cardioDays,
                      cardioType |-> a.cardioType,
                      priority |-> a.prioritize],
   schedule |-> HybridSchedule(a),
   tips |-> <<"Keep hard cardio sessions 48h away from leg day",
              "Easy Zone 2 cardio can be done more frequently",
              "Listen to your body and adjust as needed",
              IF a.prioritize = "strength"
                THEN "Prioritize strength sessions when fatigued"
                ELSE "Schedule quality cardio when fresh">>]

\* strengthDays 2..4, cardioDays 1..3 and the two enums
OptimizeHybridScheduleArgs ==
  {[strengthDays |-> sd, cardioDays |-> cd, cardioType |-> ct, prioritize |-> pr] :
     sd \in 2..4, cd \in 1..3,
     ct \in {"running", "cycling", "swimming", "mixed"},
     pr \in {"strength", "cardio", "balanced"}}

OptimizeHybridScheduleCall ==
  /\ tool = "optimize_hybrid_schedule"
  /\ pc = "called"
  /\ pc' = "returned"
  /\ result' = OptimizeHybridSchedule(args)
  /\ UNCHANGED <<tool, args, cliVars>>

\* the argument records each tool's schema accepts, within the bounds, and
\* the argument lists of a direct call of generatePlan
ArgsOf(t) ==
  CASE t = "get_progression" -> GetProgressionArgs
    [] t = "log_set" -> LogSetArgs
    [] t = "interpret_effort" -> InterpretEffortArgs
    [] t = "get_form_cues" -> GetFormCuesArgs
    [] t = "generate_plan" -> GeneratePlanArgs
    [] t = "generatePlan" -> GeneratePlanFunctionArgs
    [] t = "get_split_recommendations" -> GetSplitRecommendationsArgs
    [] t = "calculate_periodization" -> CalculatePeriodizationArgs
    [] t = "optimize_hybrid_schedule" -> OptimizeHybridScheduleArgs

\* the tools of fitnessToolsServer and planToolsServer
Tools ==
  {"get_progression", "log_set", "interpret_effort", "get_form_cues", "generate_plan",
   "get_split_recommendations", "calculate_periodization", "optimize_hybrid_schedule"}

\* generatePlan is not a tool: it is the function of the plan module that
\* the handler of generate_plan calls with a split type of the enum.  The
\* model also calls it directly, with any split tag, as the statements about
\* the function itself do; no client of the servers can make these calls
Functions == {"generatePlan"}

Calls == Tools \cup Functions

\* no query in flight: the value of response outside runFitnessCoach
NoResponse == [messages |-> <<>>, ending |-> "none"]

\* the harness variables while the harness is not part of the behaviour
CliOff ==
  /\ argv = <<>>
  /\ cliPc = "off"
  /\ rl = "none"
  /\ prompts = 0
  /\ queries = 0
  /\ inFlight = 0
  /\ userPrompt = <<>>
  /\ response = NoResponse
  /\ printed = None

Init ==
  /\ tool \in Calls
  /\ args \in ArgsOf(tool)
  /\ result = None
  /\ pc = "called"
  /\ CliOff

Next ==
  \/ GetProgression
  \/ LogSet
  \/ InterpretEffortCall
  \/ GetFormCuesCall
  \/ GeneratePlanCall
  \/ GeneratePlanFunctionCall
  \/ GetSplitRecommendationsCall
  \/ CalculatePeriodizationCall
  \/ OptimizeHybridScheduleCall

Spec == Init /\ [][Next]_vars

---------------------------------------------------------------------------
(* The command-line harness, src/src/index.ts.  A line of input or an      *)
(* argument list is a sequence of fragments; " " is white space.           *)

InputFragments == {" ", "exit", "Exit", "squat"}
InputLines == UNION {[1..n -> InputFragments] : n \in 0..MaxInputLen}

\* process.argv.slice(2): words, none of them white space
ArgumentLists == UNION {[1..n -> InputFragments \ {" "}] : n \in 0..MaxInputLen}

\* String.prototype.trim: white space removed from both ends
RECURSIVE trimStart(_)
trimStart(line) ==
  IF line # <<>> /\ Head(line) = " " THEN trimStart(Tail(line)) ELSE line

RECURSIVE trimEnd(_)
trimEnd(line) ==
  IF line # <<>> /\ line[Len(line)] = " "
    THEN trimEnd(SubSeq(line, 1, Len(line) - 1))
    ELSE line

trim(line) == trimEnd(trimStart(line))

\* args.join(' ')
RECURSIVE join(_)
join(words) ==
  IF Len(words) <= 1 THEN words
  ELSE <<Head(words), " ">> \o join(Tail(words))

\* trimmed.toLowerCase() === 'exit'
isExit(trimmed) == toLowerCase(trimmed) = <<"exit">>

\* the SDKMessage values a query can yield, by the fields handleMessage
\* reads; errors is the optional errors array of a result
Messages ==
  {[type |-> "assistant", detail |-> "text", errors |-> Absent],
   [type |-> "assistant", detail |-> "tool_use", errors |-> Absent],
   [type |-> "system", detail |-> "init", errors |-> Absent],
   [type |-> "system", detail |-> "compact_boundary", errors |-> Absent],
   [type |-> "result", detail |-> "success", errors |-> Absent],
   [type |-> "result", detail |-> "error_max_turns", errors |-> Absent],
   [type |-> "result", detail |-> "error_max_turns", errors |-> <<<<>>>>],
   [type |-> "result", detail |-> "error_max_turns", errors |-> <<<<"boom", "bang">>>>],
   [type |-> "result", detail |-> "error_during_execution", errors |-> <<<<"boom">>>>],
   [type |-> "tool_progress", detail |-> "none", errors |-> Absent],
   [type |-> "stream_event", detail |-> "none", errors |-> Absent],
   [type |-> "user", detail |-> "none", errors |-> Absent],
   [type |-> "auth_status", detail |-> "error", errors |-> Absent],
   [type |-> "auth_status", detail |-> "none", errors |-> Absent]}

\* what the SDK does with one query: the messages it yields, after which
\* the async iterator ends ("return") or rejects ("throw")
Responses ==
  {[messages |-> m, ending |-> e] :
     m \in UNION {[1..n -> Messages] : n \in 0..MaxMessages},
     e \in {"return", "throw"}}

\* getAssistantContent: the text blocks of the message joined; empty when
\* the message has none
getAssistantContent(message) == IF message.detail = "text" THEN "text" ELSE ""

\* handleMessage: the last console line after the message is handled
handleMessage(message, before) ==
  CASE message.type = "assistant" ->
         IF getAssistantContent(message) # "" THEN "Coach" ELSE before
    [] message.type = "system" ->
         IF message.detail = "init" THEN "Session initialized" ELSE before
    [] message.type = "result" ->
         IF message.detail = "success" THEN "Completed"
         ELSE IF Present(message.errors) /\ Len(ValueOf(message.errors)) > 0
           THEN LET errors == ValueOf(message.errors)
                IN "  - " \o errors[Len(errors)]
         ELSE "Ended with"
    [] message.type = "tool_progress" -> "Tool in progress"
    [] message.type = "auth_status" ->
         IF message.detail = "error" THEN "Auth error" ELSE before
    [] OTHER -> before

\* runFitnessCoach up to its first await: the header is printed and query()
\* is called
runFitnessCoach(prompt) ==
  /\ userPrompt' = prompt
  /\ queries' = queries + 1
  /\ inFlight' = inFlight + 1
  /\ \E r \in Responses : response' = r
  /\ printed' = "divider"
  /\ cliPc' = "streaming"

\* askQuestion: rl.question("You: ", callback)
askQuestion ==
  /\ prompts' = prompts + 1
  /\ printed' = "You: "
  /\ cliPc' = "question"

\* main: single query mode when there are arguments, else interactiveMode,
\* which creates the interface and asks the first question
Main ==
  /\ cliPc = "main"
  /\ IF Len(argv) > 0
       THEN /\ runFitnessCoach(join(argv))
            /\ UNCHANGED <<rl, prompts>>
       ELSE /\ rl' = "open"
            /\ askQuestion
            /\ UNCHANGED <<queries, inFlight, userPrompt, response>>
  /\ UNCHANGED <<argv, toolVars>>

\* the callback of rl.question, run when the user enters a line, up to its
\* first await
Answer ==
  /\ cliPc = "question"
  /\ prompts <= MaxPrompts
  /\ \E input \in InputLines :
       LET trimmed == trim(input)
       IN IF isExit(trimmed)
            THEN /\ printed' = "Goodbye"
                 /\ rl' = "closed"
                 /\ cliPc' = "closed"
                 /\ UNCHANGED <<prompts, queries, inFlight, userPrompt, response>>
          ELSE IF trimmed # <<>>
            THEN /\ runFitnessCoach(trimmed)
                 /\ UNCHANGED <<rl, prompts>>
          ELSE /\ askQuestion
               /\ UNCHANGED <<rl, queries, inFlight, userPrompt, response>>
  /\ UNCHANGED <<argv, toolVars>>

\* for await (const message of response) handleMessage(message)
NextMessage ==
  /\ cliPc = "streaming"
  /\ response.messages # <<>>
  /\ printed' = handleMessage(Head(response.messages), printed)
  /\ response' = [response EXCEPT !.messages = Tail(@)]
  /\ UNCHANGED <<argv, cliPc, rl, prompts, queries, inFlight, userPrompt, toolVars>>

\* the input ends (stdin is a pipe or a file that is exhausted, or the
\* user sends end-of-file): readline closes the interface.  A pending
\* question is never answered and the process ends; a query in flight goes
\* on; a process that went on after an unhandled rejection ends as well
InputEnds ==
  /\ rl = "open"
  /\ cliPc \in {"question", "streaming", "stalled"}
  /\ rl' = "closed"
  /\ cliPc' = IF cliPc = "question" THEN "ended" ELSE cliPc
  /\ UNCHANGED <<argv, prompts, queries, inFlight, userPrompt, response, printed, toolVars>>

\* the outcomes of a promise rejected with no handler: the process is
\* terminated (the default of Node.js 15 and later) or it goes on (earlier
\* versions, --unhandled-rejections=warn or none)
UnhandledRejection == {"crashed", "stalled"}

\* what the console shows last after an unhandled rejection with the given
\* outcome, last being what it showed before: a terminated process has
\* written the error; a process that goes on has written a warning, or
\* nothing at all (--unhandled-rejections=none)
rejectionOutput(outcome, last) ==
  IF outcome = "crashed" THEN {"unhandled rejection"}
                         ELSE {"unhandled rejection", last}

\* the stream ends: runFitnessCoach prints the divider and returns.  main
\* (single query mode) goes to its end; the question callback goes on to
\* askQuestion().  If the interface was closed meanwhile, rl.question either
\* throws ERR_USE_AFTER_CLOSE inside the async callback (Node.js 18 and
\* later), an unhandled rejection, or (Node.js 16 and earlier) writes the
\* prompt and registers a callback that is never called, and the process
\* ends with the question pending
StreamEnds ==
  /\ cliPc = "streaming"
  /\ response.messages = <<>>
  /\ response.ending = "return"
  /\ inFlight' = inFlight - 1
  /\ response' = NoResponse
  /\ IF Len(argv) > 0
       THEN cliPc' = "done" /\ printed' = "divider" /\ UNCHANGED prompts
     ELSE IF rl = "open"
       THEN askQuestion
     ELSE \/ /\ cliPc' \in UnhandledRejection
             /\ printed' \in rejectionOutput(cliPc', "divider")
             /\ UNCHANGED prompts
          \/ /\ cliPc' = "ended"
             /\ printed' = "You: "
             /\ prompts' = prompts + 1
  /\ UNCHANGED <<argv, rl, queries, userPrompt, toolVars>>

\* the stream throws: runFitnessCoach rejects.  In single query mode the
\* rejection reaches main().catch, which exits with status 1.  In
\* interactive mode main has already returned; the rejection is that of the
\* promise of the async question callback, which nothing handles, and
\* askQuestion() is not reached
StreamThrows ==
  /\ cliPc = "streaming"
  /\ response.messages = <<>>
  /\ response.ending = "throw"
  /\ inFlight' = inFlight - 1
  /\ response' = NoResponse
  /\ IF Len(argv) > 0
       THEN cliPc' = "fatal" /\ printed' = "Fatal error"
       ELSE /\ cliPc' \in UnhandledRejection
            /\ printed' \in rejectionOutput(cliPc', printed)
  /\ UNCHANGED <<argv, rl, prompts, queries, userPrompt, toolVars>>

CliInit ==
  /\ argv \in ArgumentLists
  /\ cliPc = "main"
  /\ rl = "none"
  /\ prompts = 0
  /\ queries = 0
  /\ inFlight = 0
  /\ userPrompt = <<>>
  /\ response = NoResponse
  /\ printed = None
  /\ tool = None
  /\ args = None
  /\ result = None
  /\ pc = "called"

CliNext ==
  \/ Main
  \/ Answer
  \/ InputEnds
  \/ NextMessage
  \/ StreamEnds
  \/ StreamThrows

\* the user may never answer and the input may never end; the SDK stream
\* and the continuation of an awaiting function always take their next step
CliSpec ==
  /\ CliInit
  /\ [][CliNext]_vars
  /\ WF_vars(NextMessage)
  /\ WF_vars(StreamEnds)
  /\ WF_vars(StreamThrows)

---------------------------------------------------------------------------
(* Claims *)

Returned(t) == pc = "returned" /\ tool = t

\* C1 (as stated): for every totalWeeks in 4..16, goal and includeDeload the
\* phases of calculate_periodization have exactly totalWeeks entries whose
\* week numbers are 1, 2, ..., totalWeeks in output order.
C1_PhasesCoverEveryWeek ==
  Returned("calculate_periodization") =>
    /\ Len(result.phases) = args.totalWeeks
    /\ \A i \in 1..Len(result.phases) : result.phases[i].week = i

\* C2: for every strengthDays, cardioDays, cardioType and prioritize the
\* schedule of optimize_hybrid_schedule has exactly 7 entries whose day
\* fields are Monday .. Sunday in that order, each weekday exactly once.
C2_ScheduleIsTheWeekInOrder ==
  Returned("optimize_hybrid_schedule") =>
    /\ Len(result.schedule) = 7
    /\ \A k \in 1..7 : result.schedule[k].day = weekDays[k]
    /\ \A j, k \in 1..Len(result.schedule) :
         j # k => result.schedule[j].day # result.schedule[k].day

C2_Witness ==
  /\ Returned("optimize_hybrid_schedule")
  /\ args.prioritize = "cardio"
  /\ args.strengthDays = 4
  /\ args.cardioDays = 3
  /\ Len(result.schedule) = 7
  /\ result.schedule[1].activity = "Upper Body"
  /\ result.schedule[2].activity = "Quality Cardio"
  /\ result.schedule[3].activity = "Rest"

\* C3 (as stated): for lastRPE >= 10 the recommended weight of
\* get_progression is previousWeight x 0.9 rounded to one decimal place.
C3_DeloadWeightIsRounded ==
  (Returned("get_progression") /\ args.lastRPE >= 100) =>
    result.recommendedWeight = RoundToOneDecimal(result.previousWeight * 9, 10)

\* C4: for every equipment kind and lastRPE <= 7, get_progression returns
\* previousWeight + 2.5 for barbell and previousWeight + 1.25 for every other
\* kind (so strictly more than before), rep range [lastReps-1, lastReps+1]
\* and trend progressing.
C4_EasySetAddsIncrement ==
  (Returned("get_progression") /\ args.lastRPE <= 70) =>
    /\ result.recommendedWeight =
         result.previousWeight + (IF args.equipment = "barbell" THEN 2500 ELSE 1250)
    /\ result.recommendedWeight > result.previousWeight
    /\ result.recommendedReps = [min |-> args.lastReps - 1, max |-> args.lastReps + 1]
    /\ result.trend = "progressing"

C4_Witness ==
  /\ Returned("get_progression")
  /\ args.lastRPE = 70
  /\ args.equipment = "kettlebell"
  /\ args.lastWeight = 2000
  /\ result.recommendedWeight = 3250

\* C5 (as stated): over every lastRPE the schema accepts, the result is a
\* deload (trend deload_needed, reduced weight) exactly when lastRPE >= 10;
\* lastRPE = 8 keeps the weight with reps [lastReps, lastReps+2], progressing;
\* lastRPE = 9 keeps the weight with reps [lastReps-1, lastReps], plateau.
C5_BandsPartitionExertion ==
  Returned("get_progression") =>
    /\ (result.trend = "deload_needed" /\ result.recommendedWeight < result.previousWeight)
         <=> (args.lastRPE >= 100)
    /\ (args.lastRPE = 80) =>
         /\ result.recommendedWeight = result.previousWeight
         /\ result.recommendedReps = [min |-> args.lastReps, max |-> args.lastReps + 2]
         /\ result.trend = "progressing"
    /\ (args.lastRPE = 90) =>
         /\ result.recommendedWeight = result.previousWeight
         /\ result.recommendedReps = [min |-> args.lastReps - 1, max |-> args.lastReps]
         /\ result.trend = "plateau"

\* C6 (as stated): calculateEstimated1RM(w, 1) = w, and for every w > 0 one
\* more rep gives a strictly larger estimate, rounding included.
C6_StrictlyIncreasingForEveryWeight ==
  Returned("log_set") =>
    /\ (args.reps = 1) => result.stats.estimated1RM = args.weight
    /\ (args.reps >= 2) =>
         result.stats.estimated1RM > calculateEstimated1RM(args.weight, args.reps - 1)

\* C6 (amended): calculateEstimated1RM(w, 1) = w for every w > 0, and for
\* every w >= 3 kg one more rep gives a strictly larger estimate (below 3 kg
\* a rep adds less than the 0.1 kg rounding step).
C6_StrictlyIncreasingFromThreeKg ==
  Returned("log_set") =>
    /\ (args.reps = 1) => result.stats.estimated1RM = args.weight
    /\ (args.reps >= 2 /\ args.weight >= 3000) =>
         result.stats.estimated1RM > calculateEstimated1RM(args.weight, args.reps - 1)

C6_Witness ==
  /\ Returned("log_set")
  /\ args.weight = 3000
  /\ args.reps = 3
  /\ result.stats.estimated1RM = 3300
  /\ calculateEstimated1RM(args.weight, 2) = 3200

\* C7 (as stated): for every description interpret_effort returns an integer
\* rpe in 1..10.
C7_RpeWithinScale ==
  Returned("interpret_effort") => result.rpe \in 1..10

\* the categories of interpret_effort in the order the claim gives them
ClaimedMatch(k, desc) ==
  CASE k = 1 -> includes(desc, "easy") \/ includes(desc, "warm-up") \/ includes(desc, "leicht")
    [] k = 2 -> includes(desc, "could do") /\ includes(desc, "more")
    [] k = 3 -> includes(desc, "good") \/ includes(desc, "solid") \/ includes(desc, "gut")
    [] k = 4 -> includes(desc, "hard") \/ includes(desc, "tough") \/ includes(desc, "schwer")
    [] k = 5 -> includes(desc, "grind") \/ includes(desc, "struggle") \/ includes(desc, "max")
    [] k = 6 -> includes(desc, "fail") \/ includes(desc, "couldn't")
    [] OTHER -> TRUE

ClaimedValue(k, desc) ==
  CASE k = 1 -> 5
    [] k = 2 -> 10 - (IF MoreMatches(desc) = {} THEN 3
                      ELSE parseInt(desc[FirstOf(MoreMatches(desc))]))
    [] k = 3 -> 7
    [] k = 4 -> 8
    [] k = 5 -> 9
    [] k = 6 -> 10
    [] OTHER -> 7

\* C8: the categories are tried in the order easy (5), could do .. more
\* (10 - N, N = 3 without a number), good (7), hard (8), grind (9), fail (10),
\* default (7); the earliest category whose keyword occurs in the lower-cased
\* description decides the rpe.
C8_FirstMatchingCategoryWins ==
  Returned("interpret_effort") =>
    LET desc == toLowerCase(args.description)
        first == FirstOf({k \in 1..7 : ClaimedMatch(k, desc)})
    IN result.rpe = ClaimedValue(first, desc)

C8_Witness ==
  /\ Returned("interpret_effort")
  /\ args.description = <<"failure", "hard", "good">>
  /\ result.rpe = 7

\* the TrainingPlan a call of generatePlan (directly, or through the
\* generate_plan handler) returned
PlanReturned == Returned("generatePlan") \/ Returned("generate_plan")
ThePlan == IF tool = "generate_plan" THEN result.plan ELSE result
\* the call ended with a TrainingPlan, not with an exception
PlanProduced == PlanReturned /\ ~Threw(ThePlan)

\* C9 (as stated): generatePlan produces min(daysPerWeek, template length) training days
\* taken in order from the template's structure, followed by exactly one
\* 'Easy Run' day iff includeCardio and daysPerWeek exceeds that number; the
\* dayNumber fields are 1..len(days) and each day's order fields are 1..k.
C9_PlanDaysFollowTemplate ==
  PlanReturned =>
    /\ ~Threw(ThePlan)
    /\ LET structure == ResolveTemplate(args.splitType).structure
           n == IF args.daysPerWeek <= Len(structure) THEN args.daysPerWeek ELSE Len(structure)
           cardio == args.includeCardio /\ args.daysPerWeek > n
           days == ThePlan.days
       IN /\ Len(days) = n + (IF cardio THEN 1 ELSE 0)
          /\ \A k \in 1..n : days[k].workoutType = structure[k] /\ days[k].name # "Easy Run"
          /\ cardio => days[n + 1].name = "Easy Run"
          /\ \A k \in 1..Len(days) :
               /\ days[k].dayNumber = k
               /\ \A j \in 1..Len(days[k].exercises) : days[k].exercises[j].order = j

\* C10 (as stated): the daysPerWeek field of the plan generatePlan returns
\* equals the number of entries of its days sequence.
C10_DaysPerWeekIsDayCount ==
  PlanProduced => ThePlan.daysPerWeek = Len(ThePlan.days)

\* the (min, max, sets) triple the claim gives for each goal
ClaimedTriple(goal) ==
  CASE goal = "hypertrophy" -> <<8, 12, 4>>
    [] goal = "strength" -> <<3, 6, 5>>
    [] goal = "endurance" -> <<12, 20, 3>>

SlotTriple(slot) == <<slot.targetRepsMin, slot.targetRepsMax, slot.targetSets>>

\* C11: every exercise slot of every template-derived day of a generated
\* plan carries the goal's triple (hypertrophy 8-12 x 4, strength 3-6 x 5,
\* endurance 12-20 x 3); ppl_3, 3 days, strength, no cardio yields exactly 3
\* days whose slots all have reps 3-6 and 5 sets.
C11_SlotsCarryGoalTriple ==
  PlanProduced =>
    /\ \A k \in 1..Len(ThePlan.days) :
         ThePlan.days[k].name # "Easy Run" =>
           /\ Len(ThePlan.days[k].exercises) > 0
           /\ \A j \in 1..Len(ThePlan.days[k].exercises) :
                SlotTriple(ThePlan.days[k].exercises[j]) = ClaimedTriple(args.goal)
    /\ (args.splitType = "ppl_3" /\ args.daysPerWeek = 3 /\ args.goal = "strength"
          /\ ~args.includeCardio) =>
         /\ Len(ThePlan.days) = 3
         /\ \A k \in 1..3 : \A j \in 1..Len(ThePlan.days[k].exercises) :
              SlotTriple(ThePlan.days[k].exercises[j]) = <<3, 6, 5>>

C11_Witness ==
  /\ Returned("generate_plan")
  /\ args.splitType = "ppl_3"
  /\ args.daysPerWeek = 3
  /\ args.goal = "strength"
  /\ ~args.includeCardio
  /\ Len(result.plan.days) = 3
  /\ Len(result.plan.days[3].exercises) = 6
  /\ SlotTriple(result.plan.days[3].exercises[6]) = <<3, 6, 5>>

\* C12 (as stated): given a split tag that is not one of the 6 template
\* names, generatePlan does not fail and builds the plan from ppl_3: its days
\* are the first min(daysPerWeek, 3) of push, pull, legs.
C12_UnknownTagFallsBackToPpl3 ==
  (Returned("generatePlan") /\ args.splitType \notin SplitNames) =>
    /\ ~Threw(result)
    /\ LET n == IF args.daysPerWeek <= 3 THEN args.daysPerWeek ELSE 3
       IN /\ Len(result.days) >= n
          /\ \A k \in 1..n : result.days[k].workoutType = <<"push", "pull", "legs">>[k]
          /\ \A k \in (n + 1)..Len(result.days) : result.days[k].name = "Easy Run"


\* the plan generatePlan returns for the arguments of this call when
\* Date.now() answers now
PlanAt(now) ==
  generatePlan(args.name, args.splitType, args.daysPerWeek, args.goal, args.includeCardio, now)

\* C13 (as stated): two invocations of generatePlan with identical arguments
\* made at different times return identical TrainingPlan records, id
\* included: the record returned is the one every other clock reading gives.
C13_SamePlanAtEveryTime ==
  Returned("generatePlan") => \A now \in 1..MaxClock : result = PlanAt(now)

ScheduleReturned == Returned("optimize_hybrid_schedule")
StrengthFirst == args.prioritize = "strength" \/ args.prioritize = "balanced"

\* the activity of weekday index i (0 = Monday) of the returned schedule and
\* of the day that follows it, Sunday being followed by Monday
ActivityOn(i) == result.schedule[i + 1].activity
ActivityAfter(i) == ActivityOn((i + 1) % 7)

StrengthActivities == {"Upper Body", "Lower Body"}
CardioActivities == {"Easy Cardio", "Quality Cardio"}

\* C14 (as stated): in the strength-first strategy (prioritize strength or
\* balanced) a cardio day is labeled 'Easy Cardio' if the following day
\* (cyclically) is labeled 'Lower Body', and 'Quality Cardio' otherwise.
C14_EasyCardioExactlyBeforeLegDay ==
  (ScheduleReturned /\ StrengthFirst) =>
    \A i \in 0..6 :
      ActivityOn(i) \in CardioActivities =>
        ActivityOn(i) = (IF ActivityAfter(i) = "Lower Body" THEN "Easy Cardio"
                         ELSE "Quality Cardio")

\* the strength sessions of the returned schedule in weekday order
StrengthInWeekOrder ==
  LET IsStrength(e) == e.activity \in StrengthActivities
      sessions == SelectSeq(result.schedule, IsStrength)
  IN [k \in 1..Len(sessions) |-> sessions[k].activity]

\* C15: in the cardio-first strategy (prioritize = cardio) no strength
\* session (Upper Body or Lower Body) is on the day immediately after a
\* Quality Cardio day, and the strength sessions in weekday order alternate
\* Upper Body, Lower Body, Upper Body, ... starting with Upper Body.
C15_CardioFirstStrengthPlacement ==
  (ScheduleReturned /\ args.prioritize = "cardio") =>
    /\ \A i \in 0..6 :
         ActivityOn(i) = "Quality Cardio" => ActivityAfter(i) \notin StrengthActivities
    /\ \A k \in 1..Len(StrengthInWeekOrder) :
         StrengthInWeekOrder[k] = (IF k % 2 = 1 THEN "Upper Body" ELSE "Lower Body")

C15_Witness ==
  /\ ScheduleReturned
  /\ args.prioritize = "cardio"
  /\ args.strengthDays = 3
  /\ args.cardioDays = 2
  /\ ActivityOn(1) = "Quality Cardio"
  /\ ActivityOn(2) = "Rest"
  /\ StrengthInWeekOrder = <<"Upper Body", "Lower Body", "Upper Body">>

\* how many days of the returned schedule carry one of the activities
SessionCount(activities) ==
  Cardinality({i \in 0..6 : ActivityOn(i) \in activities})

\* C17 (as stated): for every strengthDays in 2..4, cardioDays in 1..3 and
\* prioritize value the schedule has exactly strengthDays strength sessions
\* (Upper Body or Lower Body) and exactly cardioDays cardio sessions (Easy
\* Cardio or Quality Cardio); all remaining days are Rest.
C17_SessionCountsAsRequested ==
  ScheduleReturned =>
    /\ SessionCount(StrengthActivities) = args.strengthDays
    /\ SessionCount(CardioActivities) = args.cardioDays
    /\ \A i \in 0..6 :
         ActivityOn(i) \notin (StrengthActivities \cup CardioActivities) =>
           ActivityOn(i) = "Rest"

\* C18 (as stated): every schedule returned by optimize_hybrid_schedule
\* contains at least one Rest day, for every accepted strengthDays,
\* cardioDays and prioritize.
C18_AtLeastOneRestDay ==
  ScheduleReturned => \E i \in 0..6 : ActivityOn(i) = "Rest"

\* C19 (as stated): in every returned schedule, under any prioritize value,
\* no day labeled 'Quality Cardio' is immediately followed (cyclically) by a
\* day labeled 'Lower Body'.
C19_NoQualityCardioBeforeLegDay ==
  ScheduleReturned =>
    \A i \in 0..6 : ~(ActivityOn(i) = "Quality Cardio" /\ ActivityAfter(i) = "Lower Body")

RecommendedSplits ==
  {result.recommendations[k].split : k \in 1..Len(result.recommendations)}

\* C16 (as stated): for every experienceLevel, availableDays in 2..6 and
\* goal, get_split_recommendations returns only splits whose template day
\* count is <= availableDays, and bestChoice is the split of one of the
\* returned recommendations.
C16_BestChoiceIsAFeasibleRecommendation ==
  Returned("get_split_recommendations") =>
    /\ \A split \in RecommendedSplits :
         split \in SplitNames /\ SPLIT_TEMPLATES[split].days <= args.availableDays
    /\ result.bestChoice \in RecommendedSplits

\* C20 (as stated): for every lastReps >= 1 and every lastRPE in 1..10 the
\* rep range recommended by get_progression is a valid range of positive
\* rep counts: 1 <= recommendedReps.min <= recommendedReps.max.
C20_RepRangeIsPositive ==
  Returned("get_progression") =>
    /\ 1 <= result.recommendedReps.min
    /\ result.recommendedReps.min <= result.recommendedReps.max

Interactive == rl # "none"

\* the session was ended by the input 'exit'
Exited == cliPc = "closed"

\* C21 (as stated): in the interactive CLI mode queries are strictly
\* sequential and the loop always makes progress: a new 'You:' prompt is
\* issued only after the previous runFitnessCoach call has finished
\* consuming its stream (at most one query in flight); after every non-exit
\* input, whether the query completes normally or fails with an error, a
\* next prompt is eventually issued; after the input 'exit' the reader is
\* closed and no further prompt or query is issued.
C21_SequentialProgressAndExit ==
  /\ [](Interactive => inFlight <= 1 /\ (cliPc = "question" => inFlight = 0))
  /\ [][Interactive /\ prompts' > prompts => inFlight' = 0]_vars
  /\ \A n \in 1..MaxPrompts :
       (Interactive /\ cliPc = "streaming" /\ prompts = n) ~> (prompts > n)
  /\ [](Exited => rl = "closed")
  /\ [][Exited => prompts' = prompts /\ queries' = queries]_vars

===========================================================================
